---- MODULE Spec2Model ----
(***************************************************************************)
(* Model of detection_service/main.py: the YOLODetector wrapper            *)
(* (constructor and detect), the lazily initialised module-level detector  *)
(* singleton, and the three Flask routes /health, /detect and /model/info. *)
(*                                                                         *)
(* Confidences and the confidence threshold are points of the grid         *)
(* 0..MaxConf (a grid point c stands for c / MaxConf); the comparison of   *)
(* line 67 is modelled as the exact comparison of the two numbers.         *)
(* Request handlers run on Threads; a handler is split only where another  *)
(* thread can run in between (around the construction in get_detector).    *)
(***************************************************************************)
EXTENDS Integers, Sequences, FiniteSets, TLC

\* ---------------------------------------------------------------- bounds
NumThreads == 2
MaxConf == 2
NumClasses == 1
MaxBoxes == 2
MaxResults == 1

VARIABLES
    detector,      \* the module-level global `detector` (line 103)
    envThreshold,  \* CONFIDENCE_THRESHOLD of the process environment
    loads,         \* number of completed YOLODetector constructions
    pc,            \* per thread: position of the request being handled
    route,         \* per thread: the route of that request
    det,           \* per thread: the local `det` of the handler
    built,         \* per thread: the request ran a construction
    sent,          \* the last response sent, with the request it answers
    dcall,         \* direct call of YOLODetector.detect: the inputs
    dret           \* direct call of YOLODetector.detect: the outcome

vars == <<detector, envThreshold, loads, pc, route, det, built, sent, dcall, dret>>
svcVars == <<detector, envThreshold, loads, pc, route, det, built, sent>>

Threads == 1..NumThreads
Confs == 0..MaxConf
ClassIds == 0..(NumClasses - 1)

SeqUpTo(S, n) == UNION {[1..k -> S] : k \in 0..n}

\* ------------------------------------------------------------ environment
Paths == {"a.jpg", "missing.jpg"}
ExistingFiles == {"a.jpg"}
ElapsedMicros == {15}
InferenceErrors == {"cannot identify image file", "CUDA out of memory"}
LoadOutcomes == {"ok", "load_failed", "warmup_failed"}
BoxCoords == {<<0, 0, 4, 4>>}

\* model.names: the label table of the loaded model
ModelNames == [c \in ClassIds |-> "class" \o ToString(c)]

NoException == [type |-> "", msg |-> ""]

\* one candidate of result.boxes: xyxy, conf, cls
Candidates == [xyxy : BoxCoords, conf : Confs, cls : ClassIds]

\* result.boxes: None, or a (possibly empty) list of candidates
NoBoxes == [present |-> FALSE, items |-> <<>>]
BoxLists == {NoBoxes} \cup {[present |-> TRUE, items |-> s] : s \in SeqUpTo(Candidates, MaxBoxes)}

\* what self.model(image_path) does: raises, or returns a list of results
NoOutcome == [raised |-> FALSE, msg |-> "", results |-> <<>>]
InferenceOutcomes ==
    {[raised |-> TRUE, msg |-> m, results |-> <<>>] : m \in InferenceErrors}
    \cup {[raised |-> FALSE, msg |-> "", results |-> rs] : rs \in SeqUpTo(BoxLists, MaxResults)}

\* the inference outcomes the request handlers are exercised with: an
\* error, no result, a result without boxes, a result with one box
HandlerOutcomes ==
    {[raised |-> TRUE, msg |-> "cannot identify image file", results |-> <<>>]}
    \cup {[raised |-> FALSE, msg |-> "", results |-> rs] : rs \in {<<>>, <<NoBoxes>>}}
    \cup {[raised |-> FALSE, msg |-> "",
           results |-> <<[present |-> TRUE,
                          items |-> <<[xyxy |-> <<0, 0, 4, 4>>, conf |-> c, cls |-> 0]>>]>>] :
             c \in Confs}

\* ------------------------------------------------------------ YOLODetector
NoDetector == [id |-> 0, confidence_threshold |-> 0, model |-> [loaded |-> FALSE, names |-> <<>>]]

\* lines 21-37: the constructor; `outcome` is what YOLO(model_path) and the
\* warm-up inference do.  The instance exists for the caller only on return.
YOLODetectorInit(id, confidence_threshold, outcome) ==
    IF outcome = "ok"
    THEN [raised |-> FALSE, exc |-> NoException,
          self |-> [id |-> id, confidence_threshold |-> confidence_threshold,
                    model |-> [loaded |-> TRUE, names |-> ModelNames]]]
    ELSE [raised |-> TRUE, exc |-> [type |-> "Exception", msg |-> outcome],
          self |-> NoDetector]

\* line 67: conf >= self.confidence_threshold
KeepsMutant(conf, threshold) == conf <= threshold
Keeps(conf, threshold) == conf >= threshold

\* lines 68-78: the dict appended for one kept candidate
MakeDetection(c) ==
    [class |-> ModelNames[c.cls], class_id |-> c.cls, confidence |-> c.conf,
     bbox |-> [x1 |-> c.xyxy[1], y1 |-> c.xyxy[2], x2 |-> c.xyxy[3], y2 |-> c.xyxy[4]]]

\* lines 67-79: the body of the inner loop for one candidate
LoopBoxMutant(acc, c, threshold) ==
    IF Keeps(c.conf, threshold)
    THEN [detections |-> Append(acc.detections, MakeDetection(c)),
          total_objects |-> acc.total_objects + 1]
    ELSE [detections |-> acc.detections, total_objects |-> acc.total_objects + 1]
LoopBox(acc, c, threshold) ==
    IF Keeps(c.conf, threshold)
    THEN [detections |-> Append(acc.detections, MakeDetection(c)),
          total_objects |-> acc.total_objects + 1]
    ELSE acc

\* lines 62-79: the inner loop over zip(xyxy, conf, cls)
RECURSIVE LoopBoxes(_, _, _, _)
LoopBoxes(acc, items, i, threshold) ==
    IF i > Len(items) THEN acc
    ELSE LoopBoxes(LoopBox(acc, items[i], threshold), items, i + 1, threshold)

\* lines 59-81: the outer loop over results
RECURSIVE LoopResults(_, _, _, _)
LoopResults(acc, results, i, threshold) ==
    IF i > Len(results) THEN acc
    ELSE LET b == results[i]
         IN  LoopResults(
                 IF b.present /\ Len(b.items) > 0
                 THEN LoopBoxes(acc, b.items, 1, threshold)
                 ELSE acc,
                 results, i + 1, threshold)

\* line 90: round(processing_time * 1000, 2), in hundredths of a millisecond
Round2Ms(us) ==
    LET q == us \div 10
        r == us % 10
    IN  IF r > 5 \/ (r = 5 /\ q % 2 = 1) THEN q + 1 ELSE q

Returned(value) == [raised |-> FALSE, exc |-> NoException, value |-> value]
Raised(type, msg) == [raised |-> TRUE, exc |-> [type |-> type, msg |-> msg],
                      value |-> [success |-> FALSE]]

\* lines 94-100: the except branch of detect
DetectFailure(image_path, msg) ==
    Returned([success |-> FALSE, error |-> msg, image_path |-> image_path])

\* lines 39-100: YOLODetector.detect
DetectorDetectMutant(self, image_path, outcome, elapsed) ==
    IF image_path \notin ExistingFiles
    THEN DetectFailure(image_path, "Image not found: " \o image_path)
    ELSE IF outcome.raised
    THEN Raised("Exception", outcome.msg)
    ELSE LET acc == LoopResults([detections |-> <<>>, total_objects |-> 0],
                                outcome.results, 1, self.confidence_threshold)
         IN  Returned([success |-> TRUE,
                       image_path |-> image_path,
                       detections |-> acc.detections,
                       total_objects |-> acc.total_objects,
                       processing_time_ms |-> Round2Ms(elapsed),
                       model_confidence_threshold |-> self.confidence_threshold])
DetectorDetect(self, image_path, outcome, elapsed) ==
    IF image_path \notin ExistingFiles
    THEN Raised("FileNotFoundError", "Image not found: " \o image_path)
    ELSE IF outcome.raised
    THEN DetectFailure(image_path, outcome.msg)
    ELSE LET acc == LoopResults([detections |-> <<>>, total_objects |-> 0],
                                outcome.results, 1, self.confidence_threshold)
         IN  Returned([success |-> TRUE,
                       image_path |-> image_path,
                       detections |-> acc.detections,
                       total_objects |-> acc.total_objects,
                       processing_time_ms |-> Round2Ms(elapsed),
                       model_confidence_threshold |-> self.confidence_threshold])

\* ------------------------------------------------------------- the routes
\* the bodies a POST /detect can carry: not JSON, {}, JSON without
\* image_path, JSON with image_path
DetectRequests ==
    {[route |-> "detect", kind |-> k, image_path |-> ""] : k \in {"malformed", "empty", "no_path"}}
    \cup {[route |-> "detect", kind |-> "path", image_path |-> p] : p \in Paths}

GetRequest(r) == [route |-> r, kind |-> "none", image_path |-> ""]

\* the requests of a route
RequestsOf(r) == IF r = "detect" THEN DetectRequests ELSE {GetRequest(r)}

JsonResponse(status, body) == [status |-> status, escaped |-> FALSE, body |-> body]

\* an exception that leaves the view function: Flask answers 500 itself
Unhandled(exc) == [status |-> 500, escaped |-> TRUE, body |-> [unhandled |-> exc.msg]]

\* lines 149-154: the except branch of the /detect handler
RequestFailed(exc) ==
    JsonResponse(500, [success |-> FALSE, error |-> "Request processing failed: " \o exc.msg])

\* lines 116-122: health_check
HealthRouteMutant(d) ==
    JsonResponse(200, [status |-> "healthy", service |-> "yolo-detection-service",
                       model_loaded |-> TRUE])
HealthRoute(d) ==
    JsonResponse(200, [status |-> "healthy", service |-> "yolo-detection-service",
                       model_loaded |-> (d # NoDetector)])

\* lines 131-154: the /detect handler once get_detector has returned `d`
DetectRouteMutant(d, r, outcome, elapsed) ==
    IF r.kind = "malformed"
    THEN RequestFailed([type |-> "BadRequest", msg |-> "Failed to decode JSON object"])
    ELSE IF r.kind \in {"empty", "no_path"}
    THEN JsonResponse(400, [success |-> FALSE, error |-> "Missing image_path in request"])
    ELSE LET out == DetectorDetect(d, r.image_path, outcome, elapsed)
         IN  IF out.raised THEN RequestFailed(out.exc)
             ELSE JsonResponse(IF out.value.success THEN 200 ELSE 500, out.value)
DetectRoute(d, r, outcome, elapsed) ==
    IF r.kind = "malformed"
    THEN RequestFailed([type |-> "BadRequest", msg |-> "Failed to decode JSON object"])
    ELSE IF r.kind \in {"empty", "no_path"}
    THEN JsonResponse(400, [success |-> FALSE, error |-> "Missing image_path in request"])
    ELSE LET out == DetectorDetect(d, r.image_path, outcome, elapsed)
         IN  IF out.raised THEN RequestFailed(out.exc)
             ELSE JsonResponse(200, out.value)

\* lines 161-165: the /model/info handler once get_detector has returned `d`
ModelInfoRoute(d) ==
    JsonResponse(200, [model_loaded |-> TRUE,
                       confidence_threshold |-> d.confidence_threshold,
                       available_classes |-> IF d.model.loaded THEN d.model.names ELSE <<>>])

\* what becomes of an exception raised by get_detector: /detect calls it
\* inside its try (line 129), /model/info outside any try (line 159)
InitFailed(r, exc) ==
    IF r = "detect" THEN RequestFailed(exc) ELSE Unhandled(exc)

\* a response as it leaves the service, with the request it answers, the
\* detector the handler held, and whether the request ran a construction
\* and called Detector.detect
Sent(r, d, response, constructing, detect_called) ==
    [req |-> r, det |-> d, resp |-> response,
     constructing |-> constructing, detect_called |-> detect_called]

NothingSent ==
    Sent(GetRequest("none"), NoDetector, JsonResponse(0, [none |-> TRUE]), FALSE, FALSE)

\* ------------------------------------------------------------ the actions
\* GET /health, lines 115-122
HealthCheck(t) ==
    /\ pc[t] = "idle"
    /\ sent' = Sent(GetRequest("health"), NoDetector, HealthRoute(detector), FALSE, FALSE)
    /\ UNCHANGED <<detector, envThreshold, loads, pc, route, det, built, dcall, dret>>

\* POST /detect arrives, lines 125-129
BeginDetect(t) ==
    /\ pc[t] = "idle"
    /\ route' = [route EXCEPT ![t] = "detect"]
    /\ pc' = [pc EXCEPT ![t] = "get_detector"]
    /\ UNCHANGED <<detector, envThreshold, loads, det, built, sent, dcall, dret>>

\* GET /model/info arrives, lines 157-159
BeginModelInfo(t) ==
    /\ pc[t] = "idle"
    /\ route' = [route EXCEPT ![t] = "model_info"]
    /\ pc' = [pc EXCEPT ![t] = "get_detector"]
    /\ UNCHANGED <<detector, envThreshold, loads, det, built, sent, dcall, dret>>

\* get_detector, lines 107-108 and 113: the test of the global
GetDetectorCheckMutant(t) ==
    /\ pc[t] = "get_detector"
    /\ pc' = [pc EXCEPT ![t] = "construct"]
    /\ UNCHANGED <<detector, envThreshold, loads, route, det, built, sent, dcall, dret>>
GetDetectorCheck(t) ==
    /\ pc[t] = "get_detector"
    /\ IF detector = NoDetector
       THEN /\ pc' = [pc EXCEPT ![t] = "construct"]
            /\ UNCHANGED det
       ELSE /\ pc' = [pc EXCEPT ![t] = "handler"]
            /\ det' = [det EXCEPT ![t] = detector]
    /\ UNCHANGED <<detector, envThreshold, loads, route, built, sent, dcall, dret>>

\* get_detector, lines 109-113: construction and the assignment of the
\* global; a failure leaves get_detector and the handler as an exception
\* (the request's body has not been read at that point)
GetDetectorConstruct(t) ==
    /\ pc[t] = "construct"
    /\ \E lo \in LoadOutcomes :
         LET made == YOLODetectorInit(loads + 1, envThreshold, lo)
         IN  IF made.raised
             THEN /\ \E r \in RequestsOf(route[t]) :
                       sent' = Sent(r, NoDetector, InitFailed(route[t], made.exc), TRUE, FALSE)
                  /\ pc' = [pc EXCEPT ![t] = "idle"]
                  /\ route' = [route EXCEPT ![t] = "none"]
                  /\ UNCHANGED <<detector, loads, det, built>>
             ELSE /\ detector' = made.self
                  /\ loads' = loads + 1
                  /\ det' = [det EXCEPT ![t] = made.self]
                  /\ built' = [built EXCEPT ![t] = TRUE]
                  /\ pc' = [pc EXCEPT ![t] = "handler"]
                  /\ UNCHANGED <<route, sent>>
    /\ UNCHANGED <<envThreshold, dcall, dret>>

\* POST /detect, lines 131-154
DetectHandler(t) ==
    /\ pc[t] = "handler"
    /\ route[t] = "detect"
    /\ \E r \in DetectRequests :
         \E outcome \in IF r.image_path \in ExistingFiles THEN HandlerOutcomes ELSE {NoOutcome},
            elapsed \in ElapsedMicros :
             sent' = Sent(r, det[t], DetectRoute(det[t], r, outcome, elapsed),
                          built[t], r.kind = "path")
    /\ pc' = [pc EXCEPT ![t] = "idle"]
    /\ route' = [route EXCEPT ![t] = "none"]
    /\ det' = [det EXCEPT ![t] = NoDetector]
    /\ built' = [built EXCEPT ![t] = FALSE]
    /\ UNCHANGED <<detector, envThreshold, loads, dcall, dret>>

\* GET /model/info, lines 161-165
ModelInfoHandler(t) ==
    /\ pc[t] = "handler"
    /\ route[t] = "model_info"
    /\ sent' = Sent(GetRequest("model_info"), det[t], ModelInfoRoute(det[t]), built[t], FALSE)
    /\ pc' = [pc EXCEPT ![t] = "idle"]
    /\ route' = [route EXCEPT ![t] = "none"]
    /\ det' = [det EXCEPT ![t] = NoDetector]
    /\ built' = [built EXCEPT ![t] = FALSE]
    /\ UNCHANGED <<detector, envThreshold, loads, dcall, dret>>

Next ==
    \E t \in Threads :
        \/ HealthCheck(t)
        \/ BeginDetect(t)
        \/ BeginModelInfo(t)
        \/ GetDetectorCheck(t)
        \/ GetDetectorConstruct(t)
        \/ DetectHandler(t)
        \/ ModelInfoHandler(t)

\* ------------------------------------------- direct calls of detect
NotCalled == [called |-> FALSE, out |-> Raised("", "")]

\* detect never reads the inference outcome when the file does not exist
DirectCalls ==
    LET selves == {YOLODetectorInit(1, t, "ok").self : t \in Confs}
    IN  [self : selves, image_path : ExistingFiles,
         outcome : InferenceOutcomes, elapsed : ElapsedMicros]
        \cup [self : selves, image_path : Paths \ ExistingFiles,
              outcome : {NoOutcome}, elapsed : ElapsedMicros]

NoCall == [self |-> NoDetector, image_path |-> "", outcome |-> NoOutcome, elapsed |-> 0]

SvcInit ==
    /\ detector = NoDetector
    /\ envThreshold \in Confs
    /\ loads = 0
    /\ pc = [t \in Threads |-> "idle"]
    /\ route = [t \in Threads |-> "none"]
    /\ det = [t \in Threads |-> NoDetector]
    /\ built = [t \in Threads |-> FALSE]
    /\ sent = NothingSent

Init ==
    /\ SvcInit
    /\ dcall = NoCall
    /\ dret = NotCalled

Spec == Init /\ [][Next]_vars

InitDetect ==
    /\ SvcInit
    /\ envThreshold = 0
    /\ dcall \in DirectCalls
    /\ dret = NotCalled

CallDetect ==
    /\ dret = NotCalled
    /\ dret' = [called |-> TRUE,
                 out |-> DetectorDetect(dcall.self, dcall.image_path, dcall.outcome, dcall.elapsed)]
    /\ UNCHANGED <<svcVars, dcall>>

NextDetect == CallDetect

SpecDetect == InitDetect /\ [][NextDetect]_vars

\* ---------------------------------------------- properties of the routes
Answered(r) == sent.req.route = r

MissingPath == Answered("detect") /\ sent.req.kind \in {"empty", "no_path"}

\* C3: a POST /detect whose JSON body is empty or has no image_path is
\* answered 400 with the fixed error body whatever the state of the
\* singleton, and the request reaches neither the construction of the
\* Detector nor Detector.detect.
C3_MissingPathIs400 ==
    MissingPath =>
        /\ sent.resp.status = 400
        /\ sent.resp.body = [success |-> FALSE, error |-> "Missing image_path in request"]
        /\ ~sent.constructing
        /\ ~sent.detect_called

\* the requests of C5: well-formed, and get_detector returned a detector
WellFormed ==
    /\ Answered("detect")
    /\ sent.req.kind = "path"
    /\ sent.det # NoDetector

HealthStep == sent' # sent /\ sent'.req.route = "health"

\* C7: GET /health answers 200, constructs nothing and leaves the singleton
\* alone; model_loaded tells whether the singleton is set at that moment,
\* which is the case exactly when some /detect or /model/info request has
\* completed a construction before.
C7_HealthIsPassive ==
    [][ /\ HealthStep =>
              /\ sent'.resp.status = 200
              /\ ~sent'.resp.escaped
              /\ sent'.resp.body.model_loaded = (detector # NoDetector)
              /\ sent'.resp.body.model_loaded = (loads > 0)
              /\ ~sent'.constructing
              /\ detector' = detector
              /\ loads' = loads
              /\ pc' = pc
        /\ loads' # loads =>
              \E t \in Threads :
                  /\ pc[t] = "construct"
                  /\ route[t] \in {"detect", "model_info"}
                  /\ pc'[t] = "handler"
      ]_vars

C7_Witness ==
    /\ Answered("health")
    /\ sent.resp.body.model_loaded
    /\ loads > 0

C9_ConstructedOnce ==
    /\ loads <= 1
    /\ \A t, u \in Threads :
          (det[t] # NoDetector /\ det[u] # NoDetector) => det[t].id = det[u].id
    /\ \A t \in Threads : det[t] # NoDetector => det[t].model.loaded

\* C10: no route handler lets an exception escape; every error while a
\* request is handled, a failed construction included, is answered by the
\* handler itself with a 500 JSON body carrying success=false and an error.
C10_NoEscape ==
    sent.resp.status = 500 =>
        /\ ~sent.resp.escaped
        /\ sent.resp.body.success = FALSE
        /\ "error" \in DOMAIN sent.resp.body

\* ------------------------------------------------ properties of detect
DetectReturned == dret.called /\ ~dret.out.raised
DetectSucceeded == DetectReturned /\ dret.out.value.success

\* C1: every detection of a success=true result of detect has a confidence
\* at or above the threshold reported on that same result, and every
\* candidate the model returned below that threshold is left out.
C1_ThresholdFloor ==
    DetectSucceeded =>
        LET v == dret.out.value
            cands == UNION {{<<i, j, dcall.outcome.results[i].items[j].conf>> :
                                j \in 1..Len(dcall.outcome.results[i].items)} :
                            i \in 1..Len(dcall.outcome.results)}
        IN  /\ v.model_confidence_threshold = dcall.self.confidence_threshold
            /\ \A k \in 1..Len(v.detections) :
                   v.detections[k].confidence >= v.model_confidence_threshold
            /\ Len(v.detections) =
                   Cardinality({c \in cands : c[3] >= v.model_confidence_threshold})

C1_Witness ==
    /\ DetectSucceeded
    /\ Len(dret.out.value.detections) = 1
    /\ Len(dcall.outcome.results) = 1
    /\ Len(dcall.outcome.results[1].items) = 2
    /\ dcall.self.confidence_threshold = 1
    /\ dcall.outcome.results[1].items[1].conf = 0
    /\ dcall.outcome.results[1].items[2].conf = 1

C6_InferenceErrorIsResult ==
    (dret.called /\ dcall.image_path \in ExistingFiles /\ dcall.outcome.raised) =>
        /\ ~dret.out.raised
        /\ DOMAIN dret.out.value = {"success", "error", "image_path"}
        /\ dret.out.value.success = FALSE
        /\ dret.out.value.error = dcall.outcome.msg
        /\ dret.out.value.image_path = dcall.image_path

C6_Witness ==
    /\ dret.called
    /\ dcall.image_path \in ExistingFiles
    /\ dcall.outcome.raised
    /\ ~dret.out.raised
====
